---- MODULE Spec2Model ----
(***************************************************************************)
(* Model of cargo-boj's option parser (src/optparse.rs): the two token     *)
(* parsers (LanguageType::from_str, CodeOpen::from_str), the wire form of  *)
(* CodeOpen, the language resolver (get_language_id) and the bpaf command  *)
(* parsers behind cargo_boj_opts.                                          *)
(*                                                                         *)
(* A Rust string is a sequence of one-character strings.  A usize, u64 or  *)
(* i64 magnitude is a decimal numeral: the sequence of its digits, most    *)
(* significant first, without leading zeros; zero is the empty sequence.   *)
(* This keeps the 64-bit limits exact (TLC's own integers are 32 bits).    *)
(***************************************************************************)
EXTENDS Integers, Sequences, FiniteSets, TLC

VARIABLES
    pc,              \* which call has been made: "start", then its result
    s,               \* the raw token handed to a FromStr implementation
    language_types,  \* the table LanguageTypes::load() returns
    lang_result,     \* Result<LanguageType, LanguageTypeError> of from_str(s)
    language,        \* Option<LanguageType>: the selector carried to the resolver
    language_id,     \* outcome of get_language_id(language)
    code_open,       \* Result<CodeOpen, ParseError> of CodeOpen::from_str(s)
    wire,            \* Option<String>: CodeOpen::to_string of the parsed value
    argv,            \* the command line after the program name
    opts             \* outcome of cargo_boj_opts()

vars == <<pc, s, language_types, lang_result, language, language_id, code_open, wire, argv, opts>>

----------------------------------------------------------------------------
(* Bounds of the explored inputs.                                          *)

\* raw tokens: every string over Alphabet of at most this many characters
MaxLen == 2
\* command lines: a command word followed by at most this many option groups
MaxGroups == 4

----------------------------------------------------------------------------
(* Option<T> and strings.                                                  *)

None == [some |-> FALSE]
Some(x) == [some |-> TRUE, val |-> x]

DigitChars == {"0", "1", "2", "3", "4", "5", "6", "7", "8", "9"}

DigitVal(c) ==
    CASE c = "0" -> 0 [] c = "1" -> 1 [] c = "2" -> 2 [] c = "3" -> 3
      [] c = "4" -> 4 [] c = "5" -> 5 [] c = "6" -> 6 [] c = "7" -> 7
      [] c = "8" -> 8 [] c = "9" -> 9

----------------------------------------------------------------------------
(* Decimal numerals: exact arithmetic for usize, u64 and i64.              *)

RECURSIVE StripZeros(_)
StripZeros(d) ==
    IF d = <<>> THEN <<>>
    ELSE IF d[1] = 0 THEN StripZeros(Tail(d)) ELSE d

RECURSIVE DecLessAt(_, _, _)
DecLessAt(a, b, i) ==
    IF i > Len(a) THEN FALSE
    ELSE IF a[i] # b[i] THEN a[i] < b[i]
    ELSE DecLessAt(a, b, i + 1)

\* a < b, both without leading zeros
DecLess(a, b) ==
    IF Len(a) # Len(b) THEN Len(a) < Len(b) ELSE DecLessAt(a, b, 1)

DecLeq(a, b) == a = b \/ DecLess(a, b)

RECURSIVE PadZeros(_, _)
PadZeros(d, n) == IF Len(d) >= n THEN d ELSE PadZeros(<<0>> \o d, n)

RECURSIVE SubAt(_, _, _, _)
SubAt(a, b, i, borrow) ==
    IF i = 0 THEN <<>>
    ELSE LET d == a[i] - b[i] - borrow
         IN  Append(SubAt(a, b, i - 1, IF d < 0 THEN 1 ELSE 0),
                    IF d < 0 THEN d + 10 ELSE d)

\* a - b for b <= a
DecSub(a, b) == StripZeros(SubAt(a, PadZeros(b, Len(a)), Len(a), 0))

\* usize::MAX = u64::MAX = 2^64 - 1 on the 64-bit targets cargo builds for
USIZE_MAX == <<1,8,4,4,6,7,4,4,0,7,3,7,0,9,5,5,1,6,1,5>>
\* 2^64, the modulus of an `as usize` cast
TWO_POW_64 == <<1,8,4,4,6,7,4,4,0,7,3,7,0,9,5,5,1,6,1,6>>
\* i64::MAX = 2^63 - 1
I64_MAX == <<9,2,2,3,3,7,2,0,3,6,8,5,4,7,7,5,8,0,7>>


----------------------------------------------------------------------------
(* Result<T, E> and the string literals of the source.                     *)

Ok(x) == [ok |-> TRUE, val |-> x]
Err(e) == [ok |-> FALSE, err |-> e]

STR_y == <<"y">>
STR_n == <<"n">>
STR_ac == <<"a", "c">>
STR_open == <<"o", "p", "e", "n">>
STR_close == <<"c", "l", "o", "s", "e">>
STR_onlyaccepted == <<"o", "n", "l", "y", "a", "c", "c", "e", "p", "t", "e", "d">>

----------------------------------------------------------------------------
(* str::parse::<usize>(), called at optparse.rs:75.                        *)

\* usize::checked_mul(result, 10)
checked_mul_10(r) ==
    LET p == IF r = <<>> THEN <<>> ELSE Append(r, 0)
    IN  IF DecLess(USIZE_MAX, p) THEN None ELSE Some(p)

RECURSIVE DecAddDigit(_, _)
DecAddDigit(r, d) ==
    IF d = 0 THEN r
    ELSE IF r = <<>> THEN <<d>>
    ELSE LET last == r[Len(r)] + d
             front == SubSeq(r, 1, Len(r) - 1)
         IN  IF last < 10 THEN Append(front, last)
             ELSE Append(DecAddDigit(front, 1), last - 10)

\* usize::checked_add(result, digit)
checked_add_digit(r, d) ==
    LET q == DecAddDigit(r, d)
    IN  IF DecLess(USIZE_MAX, q) THEN None ELSE Some(q)

\* the digit loop: an invalid digit or an overflow is an Err
RECURSIVE parse_digits(_, _)
parse_digits(chars, result) ==
    IF chars = <<>> THEN Ok(result)
    ELSE IF chars[1] \notin DigitChars THEN Err("InvalidDigit")
    ELSE LET mul == checked_mul_10(result)
         IN  IF ~mul.some THEN Err("PosOverflow")
             ELSE LET add == checked_add_digit(mul.val, DigitVal(chars[1]))
                  IN  IF ~add.some THEN Err("PosOverflow")
                      ELSE parse_digits(Tail(chars), add.val)

\* faulty variant: the digits are read without the overflow checks
usize_from_str_unchecked(src) ==
    LET digits == IF src # <<>> /\ src[1] = "+" THEN Tail(src) ELSE src
    IN  IF digits = <<>> \/ \E i \in 1..Len(digits) : digits[i] \notin DigitChars
        THEN Err("InvalidDigit")
        ELSE Ok(StripZeros([i \in 1..Len(digits) |-> DigitVal(digits[i])]))

\* a lone sign is invalid; an unsigned type strips a leading "+" only
usize_from_str(src) ==
    IF src = <<>> THEN Err("Empty")
    ELSE IF src \in {<<"+">>, <<"-">>} THEN Err("InvalidDigit")
    ELSE IF src[1] = "+" THEN parse_digits(Tail(src), <<>>)
    ELSE parse_digits(src, <<>>)

----------------------------------------------------------------------------
(* LanguageType and its FromStr (optparse.rs:34-37, 71-82).                *)

Id(n) == [tag |-> "Id", id |-> n]
Name(str) == [tag |-> "Name", name |-> str]

LanguageTypeError == "LanguageTypeError"

\* faulty variant: the empty token is an error
LanguageType_from_str_rejecting(str) ==
    LET lt == usize_from_str(str)
    IN  IF lt.ok THEN Ok(Id(lt.val))
        ELSE IF str = <<>> THEN Err(LanguageTypeError) ELSE Ok(Name(str))

LanguageType_from_str(str) ==
    LET lt == usize_from_str(str)
    IN  IF lt.ok THEN Ok(Id(lt.val)) ELSE Ok(Name(str))

----------------------------------------------------------------------------
(* CodeOpen, its FromStr and ToString (optparse.rs:91-134).                *)

CodeOpen == {"Yes", "No", "YesOnAc"}

ParseError == "ParseError"

\* faulty variant: "y.." and "n.." are matched by their first character
CodeOpen_from_str_by_prefix(str) ==
    IF str # <<>> /\ str[1] = "y" THEN Ok("Yes")
    ELSE IF str # <<>> /\ str[1] = "n" THEN Ok("No")
    ELSE IF str = STR_ac THEN Ok("YesOnAc")
    ELSE Err(ParseError)

CodeOpen_from_str(str) ==
    IF str = STR_y THEN Ok("Yes")
    ELSE IF str = STR_n THEN Ok("No")
    ELSE IF str = STR_ac THEN Ok("YesOnAc")
    ELSE Err(ParseError)

\* faulty variant: YesOnAc is sent as "open"
CodeOpen_to_string_merged(c) ==
    CASE c = "Yes" -> STR_open
      [] c = "No" -> STR_close
      [] c = "YesOnAc" -> STR_open

CodeOpen_to_string(c) ==
    CASE c = "Yes" -> STR_open
      [] c = "No" -> STR_close
      [] c = "YesOnAc" -> STR_onlyaccepted

----------------------------------------------------------------------------
(* serde_json::Value as the language table stores it, and the resolver     *)
(* (optparse.rs:39-54).                                                    *)

\* serde_json::Number: a u64, a negative i64 (by magnitude) or an f64
PosInt(d) == [json |-> "Number", repr |-> "PosInt", mag |-> d]
NegInt(d) == [json |-> "Number", repr |-> "NegInt", mag |-> d]
Float(text) == [json |-> "Number", repr |-> "Float", mag |-> text]
JString(str) == [json |-> "String", repr |-> "String", mag |-> str]

\* Number::as_i64: None for a u64 above i64::MAX and for every f64
as_i64(n) ==
    CASE n.repr = "PosInt" ->
            IF DecLeq(n.mag, I64_MAX) THEN Some([neg |-> FALSE, mag |-> n.mag])
            ELSE None
      [] n.repr = "NegInt" -> Some([neg |-> TRUE, mag |-> n.mag])
      [] n.repr = "Float" -> None

\* `i as usize` for an i64: two's complement wrap-around for a negative i
as_usize(i) == IF i.neg THEN DecSub(TWO_POW_64, i.mag) ELSE i.mag

\* a call either returns a usize or panics (Option::unwrap on None)
Returned(n) == [panic |-> FALSE, val |-> n]
Panicked == [panic |-> TRUE]

DefaultLanguageId == <<1, 1, 3>>

get_language_id_from_str(str, table) ==
    IF str \in DOMAIN table /\ table[str].json = "Number"
    THEN LET id == as_i64(table[str])
         IN  IF id.some THEN Returned(as_usize(id.val)) ELSE Panicked
    ELSE Returned(DefaultLanguageId)

\* faulty variant: an Id is kept only when the table stores it
get_language_id_checked(lang, table) ==
    IF lang.some /\ lang.val.tag = "Id"
        THEN IF \E k \in DOMAIN table : table[k] = PosInt(lang.val.id)
             THEN Returned(lang.val.id) ELSE Returned(DefaultLanguageId)
    ELSE IF lang.some THEN get_language_id_from_str(lang.val.name, table)
    ELSE Returned(DefaultLanguageId)

get_language_id(lang, table) ==
    IF lang.some /\ lang.val.tag = "Id" THEN Returned(lang.val.id)
    ELSE IF lang.some THEN get_language_id_from_str(lang.val.name, table)
    ELSE Returned(DefaultLanguageId)


----------------------------------------------------------------------------
(* bpaf, as optparse.rs uses it.  The command line is a sequence of        *)
(* strings; an item that starts with "-" is a flag, any other item is a    *)
(* word.  Parsers mark the items they take as used and never move them,    *)
(* so "the item after the flag" is the next item of the command line.      *)
(* (The explored command lines hold no "--", no "-x=v" and no clustered    *)
(* short flags.)                                                           *)

IsFlag(a) == Len(a) >= 2 /\ a[1] = "-"
IsWord(a) == ~IsFlag(a)

SetMin(S) == CHOOSE x \in S : \A y \in S : x <= y

POk(v, used) == [st |-> "ok", val |-> v, used |-> used]
PMissing(used) == [st |-> "missing", val |-> None, used |-> used]
PFail(used) == [st |-> "fail", val |-> None, used |-> used]

\* NamedArg::argument(..): the first unused item among `names`, and the
\* word right after it
take_arg(av, used, names) ==
    LET at == {i \in (1..Len(av)) \ used : av[i] \in names}
    IN  IF at = {} THEN PMissing(used)
        ELSE LET k == SetMin(at)
             IN  IF k + 1 <= Len(av) /\ (k + 1) \notin used /\ IsWord(av[k + 1])
                 THEN POk(av[k + 1], used \cup {k, k + 1})
                 ELSE PFail(used)

\* NamedArg::switch(): true when the flag is there, false otherwise
take_flag(av, used, names) ==
    LET at == {i \in (1..Len(av)) \ used : av[i] \in names}
    IN  IF at = {} THEN POk(FALSE, used)
        ELSE POk(TRUE, used \cup {SetMin(at)})

\* positional(..): the first unused word
take_positional(av, used) ==
    LET at == {i \in (1..Len(av)) \ used : IsWord(av[i])}
    IN  IF at = {} THEN PMissing(used)
        ELSE POk(av[SetMin(at)], used \cup {SetMin(at)})

\* argument::<T>(..): the word r.val goes through T::from_str, v being its
\* result; an Err is a parse failure that optional() does not absorb
parsed(r, v) ==
    IF r.st # "ok" THEN r
    ELSE IF v.ok THEN POk(v.val, r.used) ELSE PFail(r.used)

String_from_str(str) == Ok(str)

argument_String(av, used, names) ==
    LET r == take_arg(av, used, names) IN parsed(r, String_from_str(r.val))

argument_LanguageType(av, used, names) ==
    LET r == take_arg(av, used, names) IN parsed(r, LanguageType_from_str(r.val))

argument_CodeOpen(av, used, names) ==
    LET r == take_arg(av, used, names) IN parsed(r, CodeOpen_from_str(r.val))

\* Parser::optional(): None only when the inner parser found nothing and
\* took nothing
optional(r, used0) ==
    IF r.st = "ok" THEN POk(Some(r.val), r.used)
    ELSE IF r.st = "missing" /\ r.used = used0 THEN POk(None, used0)
    ELSE PFail(r.used)

\* faulty variant: two successes are merged and both count as used
or_else_both(a, b, used0) ==
    IF a.st = "ok" /\ b.st = "ok" THEN POk(a.val, a.used \cup b.used)
    ELSE IF a.st = "ok" THEN a
    ELSE IF b.st = "ok" THEN b
    ELSE IF a.st = "missing" /\ b.st = "missing" THEN PMissing(used0)
    ELSE PFail(used0)

\* construct!([a, b]): both run on the same items; of two successes the one
\* that took the leftmost item wins, and the other's items stay unused
or_else(a, b, used0) ==
    IF a.st = "ok" /\ b.st = "ok"
    THEN IF a.used = used0 \/ b.used = used0 THEN a
         ELSE IF SetMin(a.used \ used0) < SetMin(b.used \ used0) THEN a ELSE b
    ELSE IF a.st = "ok" THEN a
    ELSE IF b.st = "ok" THEN b
    ELSE IF a.st = "missing" /\ b.st = "missing" THEN PMissing(used0)
    ELSE PFail(used0)

\* the value of one field of construct!(T { .. }) under a constructor
tagged(r, tag) ==
    IF r.st = "ok" THEN POk([tag |-> tag, val |-> r.val], r.used) ELSE r


----------------------------------------------------------------------------
(* The command words and option names of optparse.rs:136-221.              *)

CMD_boj == <<"b", "o", "j">>
CMD_login == <<"l", "o", "g", "i", "n">>
CMD_test == <<"t", "e", "s", "t">>
CMD_submit == <<"s", "u", "b", "m", "i", "t">>
LONG_bojautologin == <<"-", "-", "b", "o", "j", "a", "u", "t", "o", "l", "o", "g", "i", "n">>
LONG_onlinejudge == <<"-", "-", "o", "n", "l", "i", "n", "e", "j", "u", "d", "g", "e">>
SHORT_b == <<"-", "b">>
LONG_bin == <<"-", "-", "b", "i", "n">>
SHORT_c == <<"-", "c">>
LONG_cmd == <<"-", "-", "c", "m", "d">>
SHORT_p == <<"-", "p">>
LONG_spj_prompt == <<"-", "-", "s", "p", "j", "-", "p", "r", "o", "m", "p", "t">>
SHORT_r == <<"-", "r">>
LONG_refresh == <<"-", "-", "r", "e", "f", "r", "e", "s", "h">>
LONG_path == <<"-", "-", "p", "a", "t", "h">>
SHORT_l == <<"-", "l">>
LONG_lang == <<"-", "-", "l", "a", "n", "g">>
SHORT_o == <<"-", "o">>
LONG_code_open == <<"-", "-", "c", "o", "d", "e", "-", "o", "p", "e", "n">>
SHORT_h == <<"-", "h">>
LONG_help == <<"-", "-", "h", "e", "l", "p">>

----------------------------------------------------------------------------
(* The three command parsers and the dispatcher (optparse.rs:136-221).     *)

\* OptionParser::command(word): the first unused item must be the command
\* word ...
take_cmd(av, used, word) ==
    LET rest == (1..Len(av)) \ used
    IN  IF rest = {} \/ av[SetMin(rest)] # word THEN PMissing(used)
        ELSE POk(word, used \cup {SetMin(rest)})

\* ... and the inner parser, run on the rest, must use every item of it
run_subparser(av, r) ==
    IF r.st = "ok" /\ r.used = 1..Len(av) THEN r ELSE PFail(r.used)

\* faulty variant: either field of the pair may be left out
Cookies_lenient(av, used) ==
    LET bojautologin == optional(take_arg(av, used, {LONG_bojautologin}), used)
        onlinejudge == optional(take_arg(av, bojautologin.used, {LONG_onlinejudge}),
                                bojautologin.used)
    IN  IF bojautologin.st # "ok" THEN bojautologin
        ELSE IF onlinejudge.st # "ok" THEN onlinejudge
        ELSE IF onlinejudge.used = used THEN PMissing(used)
        ELSE POk([bojautologin |-> bojautologin.val, onlinejudge |-> onlinejudge.val],
                 onlinejudge.used)

\* construct!(Cookies { bojautologin, onlinejudge }): both fields are
\* required arguments of the pair
Cookies(av, used) ==
    LET bojautologin == argument_String(av, used, {LONG_bojautologin})
        onlinejudge == argument_String(av, bojautologin.used, {LONG_onlinejudge})
    IN  IF bojautologin.st # "ok" THEN [bojautologin EXCEPT !.used = onlinejudge.used]
        ELSE IF onlinejudge.st # "ok" THEN onlinejudge
        ELSE POk([bojautologin |-> bojautologin.val, onlinejudge |-> onlinejudge.val],
                 onlinejudge.used)

cargo_boj_login(av, used) ==
    LET cookies == optional(Cookies(av, used), used)
    IN  IF cookies.st # "ok" THEN cookies
        ELSE POk([variant |-> "Login", cookies |-> cookies.val], cookies.used)

cargo_boj_test(av, used) ==
    LET bin == tagged(argument_String(av, used, {SHORT_b, LONG_bin}), "Bin")
        cmd == tagged(argument_String(av, used, {SHORT_c, LONG_cmd}), "Cmd")
        bin_or_cmd == optional(or_else(bin, cmd, used), used)
        spj_prompt == take_flag(av, bin_or_cmd.used, {SHORT_p, LONG_spj_prompt})
        refresh == take_flag(av, spj_prompt.used, {SHORT_r, LONG_refresh})
        problem_id == take_positional(av, refresh.used)
    IN  IF bin_or_cmd.st # "ok" THEN [bin_or_cmd EXCEPT !.used = problem_id.used]
        ELSE IF problem_id.st # "ok" THEN problem_id
        ELSE POk([variant |-> "Test",
                  problem_id |-> problem_id.val,
                  bin_or_cmd |-> bin_or_cmd.val,
                  spj_prompt |-> spj_prompt.val,
                  refresh |-> refresh.val], problem_id.used)

\* faulty variant: -p/--path is required
cargo_boj_submit_path_required(av, used) ==
    LET path == argument_String(av, used, {SHORT_p, LONG_path})
        language_ == optional(argument_LanguageType(av, path.used, {SHORT_l, LONG_lang}),
                              path.used)
        code_open_ == optional(argument_CodeOpen(av, language_.used, {SHORT_o, LONG_code_open}),
                               language_.used)
        problem_id == take_positional(av, code_open_.used)
    IN  IF path.st # "ok" \/ language_.st # "ok" \/ code_open_.st # "ok"
           \/ problem_id.st # "ok"
        THEN PFail(problem_id.used)
        ELSE POk([variant |-> "Submit",
                  problem_id |-> problem_id.val,
                  path |-> Some(path.val),
                  language |-> language_.val,
                  code_open |-> code_open_.val], problem_id.used)

cargo_boj_submit(av, used) ==
    LET path == optional(argument_String(av, used, {SHORT_p, LONG_path}), used)
        language_ == optional(argument_LanguageType(av, path.used, {SHORT_l, LONG_lang}),
                              path.used)
        code_open_ == optional(argument_CodeOpen(av, language_.used, {SHORT_o, LONG_code_open}),
                               language_.used)
        problem_id == take_positional(av, code_open_.used)
    IN  IF path.st # "ok" THEN [path EXCEPT !.used = problem_id.used]
        ELSE IF language_.st # "ok" THEN [language_ EXCEPT !.used = problem_id.used]
        ELSE IF code_open_.st # "ok" THEN [code_open_ EXCEPT !.used = problem_id.used]
        ELSE IF problem_id.st # "ok" THEN problem_id
        ELSE POk([variant |-> "Submit",
                  problem_id |-> problem_id.val,
                  path |-> path.val,
                  language |-> language_.val,
                  code_open |-> code_open_.val], problem_id.used)

\* faulty variant: the first word is skipped whatever it is
cargo_helper_any_word(av) ==
    LET words == {i \in 1..Len(av) : IsWord(av[i])}
    IN  IF words # {} /\ av[SetMin(words)] \notin {CMD_login, CMD_test, CMD_submit}
        THEN {SetMin(words)} ELSE {}

\* cargo_helper("boj", ..): literal("boj").optional() in front of the
\* commands takes the first word when that word is "boj"
cargo_helper(av) ==
    LET words == {i \in 1..Len(av) : IsWord(av[i])}
    IN  IF words # {} /\ av[SetMin(words)] = CMD_boj THEN {SetMin(words)} ELSE {}

\* how a run of the parser ends: an Opts value, or the process exits with
\* the usage error (non-zero) or with the help text (-h, --help)
Parsed(o) == [kind |-> "opts", value |-> o]
UsageError == [kind |-> "usage_error", value |-> None]
HelpText == [kind |-> "help", value |-> None]

cargo_boj_opts(av) ==
    LET used0 == cargo_helper(av)
        login_cmd == take_cmd(av, used0, CMD_login)
        test_cmd == take_cmd(av, used0, CMD_test)
        submit_cmd == take_cmd(av, used0, CMD_submit)
        login == IF login_cmd.st # "ok" THEN login_cmd
                 ELSE run_subparser(av, cargo_boj_login(av, login_cmd.used))
        test == IF test_cmd.st # "ok" THEN test_cmd
                ELSE run_subparser(av, cargo_boj_test(av, test_cmd.used))
        submit == IF submit_cmd.st # "ok" THEN submit_cmd
                  ELSE run_subparser(av, cargo_boj_submit(av, submit_cmd.used))
    IN  IF \E i \in 1..Len(av) : av[i] \in {SHORT_h, LONG_help} THEN HelpText
        ELSE IF login.st = "ok" THEN Parsed(login.val)
        ELSE IF test.st = "ok" THEN Parsed(test.val)
        ELSE IF submit.st = "ok" THEN Parsed(submit.val)
        ELSE UsageError


----------------------------------------------------------------------------
(* The explored inputs.                                                    *)

Alphabet == {"0", "1", "+", "-", " ", "c", "C", "y"}

StringsUpTo(n) == UNION {[1..k -> Alphabet] : k \in 0..n}

DigitChar(d) ==
    CASE d = 0 -> "0" [] d = 1 -> "1" [] d = 2 -> "2" [] d = 3 -> "3"
      [] d = 4 -> "4" [] d = 5 -> "5" [] d = 6 -> "6" [] d = 7 -> "7"
      [] d = 8 -> "8" [] d = 9 -> "9"

\* the numeral that writes the digits d
Numeral(d) == [i \in 1..Len(d) |-> DigitChar(d[i])]

\* longer tokens: numerals around usize::MAX, with leading zeros and a
\* sign, and words close to the accepted code-open literals
LongTokens ==
    { Numeral(USIZE_MAX), Numeral(TWO_POW_64),
      <<"0", "0">> \o Numeral(USIZE_MAX), <<"0", "0">> \o Numeral(TWO_POW_64),
      <<"+">> \o Numeral(USIZE_MAX), <<"+">> \o Numeral(TWO_POW_64),
      Numeral(I64_MAX), Numeral(<<1>> \o USIZE_MAX),
      Numeral(<<1,8,4,4,6,7,4,4,0,7,3,7,0,9,5,5,1,6,2,0>>),
      Numeral(<<9,9,9,9,9,9,9,9,9,9,9,9,9,9,9,9,9,9,9,9>>),
      <<"n">>, <<"Y">>, <<"N">>, <<"a">>, <<"a", "c">>, <<"c", "a">>,
      <<"0", "0", "0", "7">>, <<"1", "1", "3">>, <<"2", "8">>,
      <<"-", "2", "8">>, <<" ", "2", "8", " ">>, <<"2", "8", "c">>,
      <<"y", "e", "s">>,
      <<"n", "o">>,
      <<"o", "p", "e", "n">>,
      <<"c", "l", "o", "s", "e">>,
      <<"o", "n", "l", "y", "a", "c", "c", "e", "p", "t", "e", "d">>,
      <<"A", "C">>,
      <<"A", "c">>,
      <<" ", "a", "c">>,
      <<"a", "c", " ">>,
      <<"p", "y", "t", "h", "o", "n", "3">> }

Tokens == StringsUpTo(MaxLen) \cup LongTokens

\* the language table: any of these names may be missing, and a stored
\* value is any of these JSON values
TableNames == {<<"c">>, <<"c", "1">>}

TableValues ==
    { PosInt(<<2, 8>>),           \* 28
      PosInt(DecAddDigit(I64_MAX, 1)),   \* i64::MAX + 1, a u64 only
      NegInt(<<1>>),              \* -1
      Float(<<"1", ".", "5">>),   \* 1.5
      JString(<<"2", "8">>) }     \* "28"

Tables == UNION {[K -> TableValues] : K \in SUBSET TableNames}

EmptyTable == [k \in {} |-> None]

ARG_pid == <<"1", "0", "0", "0">>
ARG_foo == <<"f", "o", "o">>
ARG_bar == <<"b", "a", "r">>

\* option groups that may follow each command word
LoginGroups ==
    { <<LONG_bojautologin, ARG_foo>>, <<LONG_onlinejudge, ARG_bar>>,
      <<LONG_onlinejudge>>, <<ARG_foo>>, <<LONG_help>> }

TestGroups ==
    { <<ARG_pid>>, <<SHORT_b, ARG_foo>>, <<LONG_cmd, ARG_bar>>, <<SHORT_c>>,
      <<SHORT_p>>, <<LONG_refresh>>, <<SHORT_h>> }

SubmitGroups ==
    { <<ARG_pid>>, <<SHORT_p, ARG_foo>>, <<SHORT_l, <<"2", "8">> >>,
      <<LONG_lang, <<"c">> >>, <<SHORT_o, STR_y>>, <<LONG_code_open, STR_ac>>,
      <<SHORT_o, <<"Y">> >> }

RECURSIVE Flatten(_)
Flatten(groups) ==
    IF groups = <<>> THEN <<>> ELSE Head(groups) \o Flatten(Tail(groups))

Bodies(G) == UNION {{Flatten(q) : q \in [1..k -> G]} : k \in 0..MaxGroups}

CommandLines ==
    {<<>>, <<CMD_boj>>, <<ARG_foo>>, <<SHORT_r, CMD_test, ARG_pid>>,
     <<CMD_boj, CMD_boj, CMD_login>>, <<CMD_test, CMD_boj>>,
     <<CMD_login, CMD_test, ARG_pid>>}
    \cup {<<ARG_foo, w>> : w \in {CMD_login, CMD_test, CMD_submit}}
    \cup {<<ARG_foo, w, ARG_pid>> : w \in {CMD_login, CMD_test, CMD_submit}}
    \cup {h \o b : h \in {<<CMD_login>>, <<CMD_boj, CMD_login>>},
                   b \in Bodies(LoginGroups)}
    \cup {h \o b : h \in {<<CMD_test>>, <<CMD_boj, CMD_test>>},
                   b \in Bodies(TestGroups)}
    \cup {h \o b : h \in {<<CMD_submit>>, <<CMD_boj, CMD_submit>>},
                   b \in Bodies(SubmitGroups)}

----------------------------------------------------------------------------
(* The state machine: one action per entry point of optparse.rs.  A run    *)
(* either hands a raw token to the FromStr implementations and then the    *)
(* parsed value to the resolver or to to_string, or hands a command line   *)
(* to cargo_boj_opts.                                                      *)

InitToken ==
    /\ pc = "start"
    /\ s \in Tokens
    /\ language_types \in Tables
    /\ argv = <<>>

InitCommandLine ==
    /\ pc = "args"
    /\ s = <<>>
    /\ language_types = EmptyTable
    /\ argv \in CommandLines

Init ==
    /\ InitToken \/ InitCommandLine
    /\ lang_result = None
    /\ language = None
    /\ language_id = None
    /\ code_open = None
    /\ wire = None
    /\ opts = None

\* LanguageType::from_str(s); an Ok value becomes Submit.language
LanguageTypeFromStr ==
    /\ pc = "start"
    /\ lang_result' = Some(LanguageType_from_str(s))
    /\ language' = IF lang_result'.val.ok THEN Some(lang_result'.val.val) ELSE None
    /\ pc' = "language"
    /\ UNCHANGED <<s, language_types, language_id, code_open, wire, argv, opts>>

\* get_language_id(language): with no selector, or with the parsed one
GetLanguageId ==
    /\ pc = "start" \/ (pc = "language" /\ language.some)
    /\ language_id' = Some(get_language_id(language, language_types))
    /\ pc' = "resolved"
    /\ UNCHANGED <<s, language_types, lang_result, language, code_open, wire, argv, opts>>

\* CodeOpen::from_str(s)
CodeOpenFromStr ==
    /\ pc = "start"
    /\ code_open' = Some(CodeOpen_from_str(s))
    /\ pc' = "code_open"
    /\ UNCHANGED <<s, language_types, lang_result, language, language_id, wire, argv, opts>>

\* CodeOpen::to_string(&code_open)
CodeOpenToString ==
    /\ pc = "code_open"
    /\ code_open.val.ok
    /\ wire' = Some(CodeOpen_to_string(code_open.val.val))
    /\ pc' = "wire"
    /\ UNCHANGED <<s, language_types, lang_result, language, language_id, code_open, argv, opts>>

\* cargo_boj_opts()
CargoBojOpts ==
    /\ pc = "args"
    /\ opts' = Some(cargo_boj_opts(argv))
    /\ pc' = "exit"
    /\ UNCHANGED <<s, language_types, lang_result, language, language_id, code_open, wire, argv>>

Next ==
    \/ LanguageTypeFromStr
    \/ GetLanguageId
    \/ CodeOpenFromStr
    \/ CodeOpenToString
    \/ CargoBojOpts

Spec == Init /\ [][Next]_vars


----------------------------------------------------------------------------
(* Properties of the token parsers and of the resolver.                    *)

AllDigits(str) == str # <<>> /\ \A i \in 1..Len(str) : str[i] \in DigitChars

\* a numeral of a non-negative integer: digits, or "+" and digits
IsNumeral(str) ==
    \/ AllDigits(str)
    \/ str # <<>> /\ str[1] = "+" /\ AllDigits(Tail(str))

\* the text of an integer: an optional sign and digits
IsIntegerText(str) ==
    \/ IsNumeral(str)
    \/ str # <<>> /\ str[1] = "-" /\ AllDigits(Tail(str))

\* the integer a numeral writes
NumeralValue(str) ==
    LET digits == IF str[1] = "+" THEN Tail(str) ELSE str
    IN  StripZeros([i \in 1..Len(digits) |-> DigitVal(digits[i])])

ResolvedName == pc = "resolved" /\ language.some /\ language.val.tag = "Name"

\* C1: resolving a Name selector never aborts; it returns the stored value
\* when the name is a key whose value is a JSON number (whatever the
\* number), and 113 when the name is absent or its value is not a number.
C1_NameResolutionTotal ==
    ResolvedName =>
        LET name == language.val.name
            r == language_id.val
        IN  /\ ~r.panic
            /\ (name \notin DOMAIN language_types \/ language_types[name].json # "Number")
                   => r.val = DefaultLanguageId
            /\ (name \in DOMAIN language_types /\ language_types[name].repr = "PosInt")
                   => r.val = language_types[name].mag

\* C2: without a name the table plays no part: no selector resolves to 113
\* and Id(n) resolves to n, whatever the table holds.
C2_NonNameIgnoresTable ==
    pc = "resolved" =>
        /\ ~language.some =>
               /\ ~language_id.val.panic
               /\ language_id.val.val = DefaultLanguageId
        /\ (language.some /\ language.val.tag = "Id") =>
               /\ ~language_id.val.panic
               /\ language_id.val.val = language.val.id

\* an Id that no entry of a non-empty table stores
C2_Witness ==
    /\ pc = "resolved"
    /\ language = Some(Id(<<7>>))
    /\ language_types # EmptyTable
    /\ \A k \in DOMAIN language_types : language_types[k] # PosInt(<<7>>)
    /\ language_id = Some(Returned(<<7>>))

\* C3 as stated: every digit string, however long, parses to Id(its value).
C3_EveryNumeralIsId ==
    (pc = "language" /\ AllDigits(s)) =>
        lang_result.val = Ok(Id(NumeralValue(s)))

\* C3, amended: a numeral (digits, leading zeros and a leading "+" allowed)
\* parses to Id(its value) when the value is at most usize::MAX, and to
\* Name(s) when it is larger.
C3_NumeralWithinUsizeIsId ==
    (pc = "language" /\ IsNumeral(s)) =>
        IF DecLeq(NumeralValue(s), USIZE_MAX)
        THEN lang_result.val = Ok(Id(NumeralValue(s)))
        ELSE lang_result.val = Ok(Name(s))

\* usize::MAX written with leading zeros
C3_Witness ==
    /\ pc = "language"
    /\ s = <<"0", "0">> \o Numeral(USIZE_MAX)
    /\ lang_result = Some(Ok(Id(USIZE_MAX)))

\* C4: LanguageType::from_str never returns an error, and a token that is
\* not the text of an integer comes back as Name(token), unchanged.
C4_FromStrNeverFails ==
    pc = "language" =>
        /\ lang_result.val.ok
        /\ ~IsIntegerText(s) => lang_result.val.val = Name(s)

\* the empty token
C4_Witness ==
    /\ pc = "language"
    /\ s = <<>>
    /\ lang_result = Some(Ok(Name(<<>>)))

\* C10: to_string sends Yes to "open", No to "close" and YesOnAc to
\* "onlyaccepted"; every CodeOpen value has a token and no two share one.
C10_WireTokens ==
    /\ pc = "wire" =>
           /\ code_open.val.val = "Yes" => wire = Some(STR_open)
           /\ code_open.val.val = "No" => wire = Some(STR_close)
           /\ code_open.val.val = "YesOnAc" => wire = Some(STR_onlyaccepted)
    /\ \A c \in CodeOpen :
           CodeOpen_to_string(c) \in {STR_open, STR_close, STR_onlyaccepted}
    /\ \A c1, c2 \in CodeOpen :
           CodeOpen_to_string(c1) = CodeOpen_to_string(c2) => c1 = c2

C10_Witness ==
    /\ pc = "wire"
    /\ s = STR_ac
    /\ code_open = Some(Ok("YesOnAc"))
    /\ wire = Some(STR_onlyaccepted)


\* C5: CodeOpen::from_str accepts "y", "n" and "ac" as Yes, No and YesOnAc
\* and rejects every other string with ParseError; a command line whose
\* code-open text is anything else yields no Opts value, and a Submit's
\* code_open is always the value of an accepted literal of the command line.
C5_CodeOpenLiterals ==
    /\ pc = "code_open" =>
           /\ s = STR_y => code_open.val = Ok("Yes")
           /\ s = STR_n => code_open.val = Ok("No")
           /\ s = STR_ac => code_open.val = Ok("YesOnAc")
           /\ s \notin {STR_y, STR_n, STR_ac} => code_open.val = Err(ParseError)
    /\ pc = "exit" =>
           /\ (\E i \in 1..(Len(argv) - 1) :
                   /\ argv[i] \in {SHORT_o, LONG_code_open}
                   /\ argv[i + 1] \notin {STR_y, STR_n, STR_ac})
                  => opts.val.kind # "opts"
           /\ (opts.val.kind = "opts" /\ opts.val.value.variant = "Submit"
                 /\ opts.val.value.code_open.some)
                  => \E i \in 1..(Len(argv) - 1) :
                         /\ argv[i] \in {SHORT_o, LONG_code_open}
                         /\ \/ argv[i + 1] = STR_y /\ opts.val.value.code_open.val = "Yes"
                            \/ argv[i + 1] = STR_n /\ opts.val.value.code_open.val = "No"
                            \/ argv[i + 1] = STR_ac /\ opts.val.value.code_open.val = "YesOnAc"

\* the padded literal "y " is rejected
C5_Witness ==
    /\ pc = "code_open"
    /\ s = <<"y", " ">>
    /\ code_open = Some(Err(ParseError))

----------------------------------------------------------------------------
(* Properties of the command parsers.                                      *)

\* where the command word must stand: first, or right after a leading "boj"
CommandAt(av) == IF av # <<>> /\ av[1] = CMD_boj THEN 2 ELSE 1

Invokes(av, word) == Len(av) >= CommandAt(av) /\ av[CommandAt(av)] = word

HasHelp(av) == \E i \in 1..Len(av) : av[i] \in {SHORT_h, LONG_help}

FlagAt(av, names) == {i \in 1..Len(av) : av[i] \in names}

\* the word that follows the only occurrence of a flag of `names`
ValueOf(av, names) == av[SetMin(FlagAt(av, names)) + 1]

\* the words after the command word that follow no flag of `takers`
FreeWords(av, takers) ==
    {i \in (CommandAt(av) + 1)..Len(av) :
        IsWord(av[i]) /\ av[i - 1] \notin takers}

\* every flag after the command word is one of `takers`, stands once, and
\* has a word after it; and exactly one word follows no flag
WellFormed(av, takers) ==
    /\ \A i \in (CommandAt(av) + 1)..Len(av) :
           IsFlag(av[i]) =>
               /\ \E names \in takers : av[i] \in names /\ Cardinality(FlagAt(av, names)) = 1
               /\ i + 1 <= Len(av) /\ IsWord(av[i + 1])
    /\ Cardinality(FreeWords(av, UNION takers)) = 1

BinNames == {SHORT_b, LONG_bin}
CmdNames == {SHORT_c, LONG_cmd}
PathNames == {SHORT_p, LONG_path}
LangNames == {SHORT_l, LONG_lang}
CodeOpenNames == {SHORT_o, LONG_code_open}

\* C6: on `test PID`, -b/--bin together with -c/--cmd, in either order, is
\* a usage error and no Test value; one of them alone gives Some(Bin(name))
\* or Some(Cmd(command)); neither gives None.
C6_BinCmdExclusive ==
    (pc = "exit" /\ Invokes(argv, CMD_test) /\ ~HasHelp(argv)) =>
        LET B == FlagAt(argv, BinNames)
            C == FlagAt(argv, CmdNames)
            o == opts.val
        IN  /\ (B # {} /\ C # {}) => o.kind = "usage_error"
            /\ (WellFormed(argv, {BinNames, CmdNames}) /\ ~(B # {} /\ C # {}))
                   => o.kind = "opts"
            /\ o.kind = "opts" =>
                   /\ o.value.variant = "Test"
                   /\ (B # {} /\ C = {}) =>
                          o.value.bin_or_cmd = Some([tag |-> "Bin", val |-> ValueOf(argv, BinNames)])
                   /\ (C # {} /\ B = {}) =>
                          o.value.bin_or_cmd = Some([tag |-> "Cmd", val |-> ValueOf(argv, CmdNames)])
                   /\ (B = {} /\ C = {}) => o.value.bin_or_cmd = None

\* `test 1000 --cmd bar -b foo`
C6_Witness ==
    /\ pc = "exit"
    /\ argv = <<CMD_test, ARG_pid, LONG_cmd, ARG_bar, SHORT_b, ARG_foo>>
    /\ opts = Some(UsageError)


\* `login` with exactly one of the two cookie flags, and its value
OneCookieOnly(av) ==
    /\ Invokes(av, CMD_login)
    /\ Len(av) = CommandAt(av) + 2
    /\ av[CommandAt(av) + 1] \in {LONG_bojautologin, LONG_onlinejudge}
    /\ IsWord(av[CommandAt(av) + 2])

\* C7 as stated: with only one of --bojautologin and --onlinejudge the
\* parse succeeds and Login.cookies is present.
C7_PartialCookiesAccepted ==
    (pc = "exit" /\ OneCookieOnly(argv)) =>
        /\ opts.val.kind = "opts"
        /\ opts.val.value.variant = "Login"
        /\ opts.val.value.cookies.some

\* C7, amended: with only one of --bojautologin and --onlinejudge the parse
\* fails with a usage error and no Login value; cookies is present, with
\* both values, exactly when both flags are given, and absent when neither.
C7_CookiesAllOrNothing ==
    (pc = "exit" /\ Invokes(argv, CMD_login) /\ ~HasHelp(argv)) =>
        LET A == FlagAt(argv, {LONG_bojautologin})
            J == FlagAt(argv, {LONG_onlinejudge})
            o == opts.val
        IN  /\ (A = {}) # (J = {}) => o.kind = "usage_error"
            /\ Len(argv) = CommandAt(argv) => o.kind = "opts"
            /\ o.kind = "opts" =>
                   /\ o.value.variant = "Login"
                   /\ o.value.cookies.some <=> (A # {} /\ J # {})
                   /\ o.value.cookies.some =>
                          o.value.cookies.val =
                              [bojautologin |-> ValueOf(argv, {LONG_bojautologin}),
                               onlinejudge |-> ValueOf(argv, {LONG_onlinejudge})]

\* `login --bojautologin foo`
C7_Witness ==
    /\ pc = "exit"
    /\ argv = <<CMD_login, LONG_bojautologin, ARG_foo>>
    /\ opts = Some(UsageError)

\* C8: on `submit PID`, each of -p, -l, -o given with a valid value is
\* Some(parsed value) in the Submit value and each one left out is None,
\* whatever the others are; problem_id is the positional.
C8_SubmitFlagsIndependent ==
    (pc = "exit" /\ Invokes(argv, CMD_submit) /\ ~HasHelp(argv)) =>
        LET P == FlagAt(argv, PathNames)
            L == FlagAt(argv, LangNames)
            O == FlagAt(argv, CodeOpenNames)
            takers == {PathNames, LangNames, CodeOpenNames}
            o == opts.val
        IN  /\ ( /\ WellFormed(argv, takers)
                 /\ O # {} => ValueOf(argv, CodeOpenNames) \in {STR_y, STR_n, STR_ac} )
                   => o.kind = "opts"
            /\ o.kind = "opts" =>
                   /\ o.value.variant = "Submit"
                   /\ o.value.problem_id = argv[SetMin(FreeWords(argv, UNION takers))]
                   /\ o.value.path =
                          IF P = {} THEN None ELSE Some(ValueOf(argv, PathNames))
                   /\ o.value.language =
                          IF L = {} THEN None
                          ELSE Some(LanguageType_from_str(ValueOf(argv, LangNames)).val)
                   /\ o.value.code_open =
                          IF O = {} THEN None
                          ELSE Some(CodeOpen_from_str(ValueOf(argv, CodeOpenNames)).val)

\* `submit 1000`
C8_Witness ==
    /\ pc = "exit"
    /\ argv = <<CMD_submit, ARG_pid>>
    /\ opts = Some(Parsed([variant |-> "Submit", problem_id |-> ARG_pid,
                           path |-> None, language |-> None, code_open |-> None]))

VariantOf(word) ==
    CASE word = CMD_login -> "Login"
      [] word = CMD_test -> "Test"
      [] word = CMD_submit -> "Submit"

\* C9 as stated: an Opts value is produced only when the first token of the
\* command line is `login`, `test` or `submit`, and its variant is the one
\* that token names; any other first token gives no Opts value.
C9_CommandWordIsFirstToken ==
    pc = "exit" =>
        /\ opts.val.kind = "opts" =>
               /\ argv # <<>>
               /\ argv[1] \in {CMD_login, CMD_test, CMD_submit}
               /\ opts.val.value.variant = VariantOf(argv[1])
        /\ (argv = <<>> \/ argv[1] \notin {CMD_login, CMD_test, CMD_submit})
               => opts.val.kind # "opts"

\* C9, amended: a run ends with one Opts value whose variant the command
\* word names, or with no Opts value: the help text when -h/--help is
\* given, a usage error otherwise.  The command word is the first token, or
\* the token right after a leading `boj`; with anything else there, or
\* nothing, there is no Opts value.
C9_OneCommandOrNoOpts ==
    pc = "exit" =>
        LET k == CommandAt(argv)
            o == opts.val
        IN  /\ o.kind \in {"opts", "usage_error", "help"}
            /\ o.kind = "help" <=> HasHelp(argv)
            /\ o.kind = "opts" =>
                   /\ Len(argv) >= k
                   /\ argv[k] \in {CMD_login, CMD_test, CMD_submit}
                   /\ o.value.variant = VariantOf(argv[k])
            /\ (Len(argv) < k \/ argv[k] \notin {CMD_login, CMD_test, CMD_submit})
                   => o.kind # "opts"

\* `boj login`, as cargo passes it
C9_Witness ==
    /\ pc = "exit"
    /\ argv = <<CMD_boj, CMD_login>>
    /\ opts = Some(Parsed([variant |-> "Login", cookies |-> None]))

====
